---- MODULE Spec2Model ----
(***************************************************************************)
(* Recut Tracker: the Parent-SKU resolver (utils/sku_utils.py) and the two *)
(* error-source classifiers (utils/data_loader.py).                        *)
(*                                                                         *)
(* Python str values are TLA+ strings.  An Optional[str] is a sequence of  *)
(* at most one string: None is <<>> and the string s is <<s>>.             *)
(***************************************************************************)
EXTENDS Integers, Sequences, FiniteSets, TLC

VARIABLES pc, arg, ret, ret2, raised

vars == <<pc, arg, ret, ret2, raised>>

None == <<>>
Some(s) == <<s>>

(***************************************************************************)
(* Bounds of the input universes.                                          *)
(***************************************************************************)
MaxSkuAtoms == 3
MaxCodeLen == 3
MaxBoolAtoms == 2
MaxBoolNum == 2
MaxNameAtoms == 3
MaxSheetRows == 2
MaxRecords == 2

(***************************************************************************)
(* Python str built-ins, computed character by character.                  *)
(***************************************************************************)
LowerChars == "abcdefghijklmnopqrstuvwxyz"
UpperChars == "ABCDEFGHIJKLMNOPQRSTUVWXYZ"

CharAt(s, i) == SubSeq(s, i, i)

UpperMap == [c \in {CharAt(LowerChars, i) : i \in 1..Len(LowerChars)} |->
               LET i == CHOOSE j \in 1..Len(LowerChars) : CharAt(LowerChars, j) = c
               IN  CharAt(UpperChars, i)]

LowerMap == [c \in {CharAt(UpperChars, i) : i \in 1..Len(UpperChars)} |->
               LET i == CHOOSE j \in 1..Len(UpperChars) : CharAt(UpperChars, j) = c
               IN  CharAt(LowerChars, i)]

UpperChar(c) == IF c \in DOMAIN UpperMap THEN UpperMap[c] ELSE c
LowerChar(c) == IF c \in DOMAIN LowerMap THEN LowerMap[c] ELSE c

RECURSIVE upper(_)
upper(s) == IF s = "" THEN "" ELSE UpperChar(Head(s)) \o upper(Tail(s))

RECURSIVE lower(_)
lower(s) == IF s = "" THEN "" ELSE LowerChar(Head(s)) \o lower(Tail(s))

Whitespace == {" ", "\t", "\n", "\r"}

RECURSIVE lstrip(_)
lstrip(s) == IF s # "" /\ Head(s) \in Whitespace THEN lstrip(Tail(s)) ELSE s

RECURSIVE rstrip(_)
rstrip(s) == IF s # "" /\ CharAt(s, Len(s)) \in Whitespace
             THEN rstrip(SubSeq(s, 1, Len(s) - 1))
             ELSE s

strip(s) == rstrip(lstrip(s))

\* s.split(sep) for a one-character sep: "".split("-") is [""].
RECURSIVE split(_, _)
split(s, sep) ==
    IF \E i \in 1..Len(s) : CharAt(s, i) = sep
    THEN LET i == CHOOSE j \in 1..Len(s) :
                     /\ CharAt(s, j) = sep
                     /\ \A k \in 1..(j - 1) : CharAt(s, k) # sep
         IN  <<SubSeq(s, 1, i - 1)>> \o split(SubSeq(s, i + 1, Len(s)), sep)
    ELSE <<s>>

\* sep.join(parts)
RECURSIVE join(_, _)
join(parts, sep) ==
    IF parts = <<>> THEN ""
    ELSE IF Len(parts) = 1 THEN parts[1]
    ELSE parts[1] \o sep \o join(Tail(parts), sep)

startswith(s, p) == Len(p) <= Len(s) /\ SubSeq(s, 1, Len(p)) = p

\* sub in s
contains(s, sub) ==
    \E i \in 1..(Len(s) - Len(sub) + 1) : SubSeq(s, i, i + Len(sub) - 1) = sub

\* pd.isna(x) or x is None
isna(x) == x = None

(***************************************************************************)
(* utils/sku_utils.py                                                      *)
(***************************************************************************)
COLOR_CODES ==
    {"BK", "CB", "MC", "MA", "MB", "MT", "RG", "WD", "WG",
     "TB", "TD", "TJ", "RD", "ML", "NG", "NP", "RT"}

SKU_EXCEPTIONS == {"PI-CB", "MI-556-TR", "MI-556-SN"}

SIZE_CODES == {"SM", "MD", "LG", "XL", "XXL", "05", "10", "15", "20", "25"}

\* sku = str(sku).strip()
clean_sku_NoStrip(sku) == sku
clean_sku(sku) == strip(sku)

\* if sku in SKU_EXCEPTIONS
is_sku_exception_Never(sku) == FALSE
is_sku_exception_IgnoreCase(sku) == upper(sku) \in SKU_EXCEPTIONS
is_sku_exception(sku) == sku \in SKU_EXCEPTIONS

\* part.upper() in COLOR_CODES
is_color_code_CaseSensitive(part) == part \in COLOR_CODES
is_color_code(part) == upper(part) \in COLOR_CODES

\* if not result_parts: return sku;  return '-'.join(result_parts)
rejoin_NoFallback(sku, result_parts) == join(result_parts, "-")
rejoin(sku, result_parts) ==
    IF result_parts = <<>> THEN sku ELSE join(result_parts, "-")

get_parent_sku(sku) ==
    IF isna(sku) THEN None
    ELSE LET s == clean_sku(sku[1]) IN
         IF s = "" THEN None
         ELSE IF is_sku_exception(s) THEN Some(s)
         ELSE LET parts == split(s, "-")
                  result_parts == SelectSeq(parts, LAMBDA part : ~is_color_code(part))
              IN  Some(rejoin(s, result_parts))

(***************************************************************************)
(* SKU inputs: None, every concatenation of at most MaxSkuAtoms atoms, the *)
(* exception SKUs (bare and padded), the documented examples, and every    *)
(* color and size code as a segment in either case.                        *)
(***************************************************************************)
SkuAtoms == {"PI", "pi", "BK", "-CB", "-cb", "-LG", "-BK", "-", " "}

RECURSIVE SkuWords(_)
SkuWords(n) ==
    IF n = 0 THEN {""}
    ELSE LET shorter == SkuWords(n - 1)
         IN  shorter \cup {w \o a : w \in shorter, a \in SkuAtoms}

SkuExamples == {"AC-ESE-BK", "PC-F20-BK-LG", "CR-AL-BK", "PI-CB-LG", "AC -BK"}

SkuInputs ==
    SkuWords(MaxSkuAtoms)
      \cup SKU_EXCEPTIONS
      \cup {" " \o e \o " " : e \in SKU_EXCEPTIONS}
      \cup SkuExamples
      \cup {"AC-" \o c : c \in COLOR_CODES}
      \cup {lower(c) \o "-AC" : c \in COLOR_CODES}
      \cup {"PC-" \o z \o "-BK" : z \in SIZE_CODES}

(***************************************************************************)
(* The resolver as a state machine: a caller holds an Optional SKU, calls  *)
(* get_parent_sku on it, and may call it again on the Parent SKU it got.   *)
(***************************************************************************)
InitSku ==
    /\ pc = "start"
    /\ arg \in {None} \cup {Some(s) : s \in SkuInputs}
    /\ ret = None
    /\ ret2 = None
    /\ raised = FALSE

GetParentSku ==
    /\ pc = "start"
    /\ ret' = get_parent_sku(arg)
    /\ pc' = "resolved"
    /\ UNCHANGED <<arg, ret2, raised>>

GetParentSkuAgain ==
    /\ pc = "resolved"
    /\ ret2' = get_parent_sku(ret)
    /\ pc' = "resolved_twice"
    /\ UNCHANGED <<arg, ret, raised>>

NextSku == GetParentSku \/ GetParentSkuAgain

SpecSku == InitSku /\ [][NextSku]_vars

(***************************************************************************)
(* utils/data_loader.py: the classification tables, in source order, as    *)
(* sequences of <<key, value>> pairs (a Python dict iterates in insertion  *)
(* order).                                                                 *)
(***************************************************************************)
SEWING_REPAIRS_DEPT_MAP ==
    << <<"A1A", "Cutting Operator Error">>,
       <<"A1B", "Cutting Operator Error">>,
       <<"A1C", "Cutting Operator Error">>,
       <<"A1D", "Cutting Operator Error">>,
       <<"A2A", "Sewing Operator Error">>,
       <<"A2D", "Sewing Operator Error">>,
       <<"S1", "Sewing Operator Error">>,
       <<"S2", "Sewing Operator Error">>,
       <<"S3", "Sewing Operator Error">>,
       <<"S4", "Sewing Operator Error">>,
       <<"S5", "Sewing Operator Error">>,
       <<"S6", "Sewing Operator Error">>,
       <<"S8", "Sewing Operator Error">>,
       <<"A1", "Cutting Machine Error">>,
       <<"B1C", "Cutting Machine Error">>,
       <<"B1E", "Cutting Machine Error">>,
       <<"A", "Sewing Machine Error">>,
       <<"B2", "Sewing Machine Error">>,
       <<"B3", "Other Machine Error">>,
       <<"C1", "Material Defect">>,
       <<"C2", "Material Defect">>,
       <<"C3", "Material Defect">> >>

\* The table with the upper-case spelling of a key given another category.
RECUT_LIST_DEPT_MAP_UpperCaseKeyDiffers ==
    << <<"A", "Sewing Operator Error">>,
       <<"A: SMO Error", "Sewing Operator Error">>,
       <<"A: SMO ERROR", "Other">>,
       <<"L", "Cutting Machine Error">>,
       <<"L: Lazer error", "Cutting Machine Error">>,
       <<"AMS", "Sewing Machine Error">>,
       <<"AMS: AMS error", "Sewing Machine Error">>,
       <<"A*", "Other Machine Error">>,
       <<"A* Machine Error", "Other Machine Error">>,
       <<"B", "Cutting Operator Error">>,
       <<"B: Wrong Material Cut", "Cutting Operator Error">>,
       <<"C", "Cutting Operator Error">>,
       <<"c", "Cutting Operator Error">>,
       <<"C: Marking error", "Cutting Operator Error">>,
       <<"F", "Cutting Operator Error">>,
       <<"F: Material Cut Too Short", "Cutting Operator Error">>,
       <<"D", "Material Defect">>,
       <<"D: Material Defect", "Material Defect">>,
       <<"E", "Other">>,
       <<"E: Missing Pieces", "Other">>,
       <<"P", "Other">>,
       <<"P: PA Error", "Other">>,
       <<"A/D", "Other">> >>

RECUT_LIST_DEPT_MAP ==
    << <<"A", "Sewing Operator Error">>,
       <<"A: SMO Error", "Sewing Operator Error">>,
       <<"A: SMO ERROR", "Sewing Operator Error">>,
       <<"L", "Cutting Machine Error">>,
       <<"L: Lazer error", "Cutting Machine Error">>,
       <<"AMS", "Sewing Machine Error">>,
       <<"AMS: AMS error", "Sewing Machine Error">>,
       <<"A*", "Other Machine Error">>,
       <<"A* Machine Error", "Other Machine Error">>,
       <<"B", "Cutting Operator Error">>,
       <<"B: Wrong Material Cut", "Cutting Operator Error">>,
       <<"C", "Cutting Operator Error">>,
       <<"c", "Cutting Operator Error">>,
       <<"C: Marking error", "Cutting Operator Error">>,
       <<"F", "Cutting Operator Error">>,
       <<"F: Material Cut Too Short", "Cutting Operator Error">>,
       <<"D", "Material Defect">>,
       <<"D: Material Defect", "Material Defect">>,
       <<"E", "Other">>,
       <<"E: Missing Pieces", "Other">>,
       <<"P", "Other">>,
       <<"P: PA Error", "Other">>,
       <<"A/D", "Other">> >>

\* Python dict operations on such a table: keys(), k in d, d[k].
dict_keys(d) == {d[i][1] : i \in DOMAIN d}
dict_has(d, k) == k \in dict_keys(d)
dict_get(d, k) == d[CHOOSE i \in DOMAIN d : d[i][1] = k][2]

\* s[0]: an IndexError on the empty string.
IndexError == "<IndexError>"
index0(s) == IF s = "" THEN IndexError ELSE CharAt(s, 1)

\* The pattern fallback of get_department_from_reason_code.
reason_code_pattern_A1AlwaysOperator(code) ==
    IF startswith(code, "A1") THEN "Cutting Operator Error"
    ELSE IF startswith(code, "A2") \/ startswith(code, "S") THEN "Sewing Operator Error"
    ELSE IF startswith(code, "B1C") \/ startswith(code, "B1E") THEN "Cutting Machine Error"
    ELSE IF startswith(code, "B2") THEN "Sewing Machine Error"
    ELSE IF startswith(code, "B") THEN "Other Machine Error"
    ELSE IF startswith(code, "C") THEN "Material Defect"
    ELSE "Other"

reason_code_pattern_A1ExactOnly(code) ==
    IF startswith(code, "A1") /\ code \notin {"A1A", "A1B", "A1C", "A1D"}
    THEN "Cutting Machine Error"
    ELSE IF startswith(code, "A1") THEN "Cutting Operator Error"
    ELSE IF startswith(code, "A2") \/ startswith(code, "S") THEN "Sewing Operator Error"
    ELSE IF startswith(code, "B1C") \/ startswith(code, "B1E") THEN "Cutting Machine Error"
    ELSE IF startswith(code, "B2") THEN "Sewing Machine Error"
    ELSE IF startswith(code, "B") THEN "Other Machine Error"
    ELSE IF startswith(code, "C") THEN "Material Defect"
    ELSE "Other"

reason_code_pattern_BFirst(code) ==
    IF /\ startswith(code, "A1")
       /\ ~startswith(code, "A1A")
       /\ ~startswith(code, "A1B")
       /\ ~startswith(code, "A1C")
       /\ ~startswith(code, "A1D")
    THEN "Cutting Machine Error"
    ELSE IF startswith(code, "A1") THEN "Cutting Operator Error"
    ELSE IF startswith(code, "A2") \/ startswith(code, "S") THEN "Sewing Operator Error"
    ELSE IF startswith(code, "B") THEN "Other Machine Error"
    ELSE IF startswith(code, "B1C") \/ startswith(code, "B1E") THEN "Cutting Machine Error"
    ELSE IF startswith(code, "B2") THEN "Sewing Machine Error"
    ELSE IF startswith(code, "C") THEN "Material Defect"
    ELSE "Other"

reason_code_pattern_UnknownLast(code) ==
    IF /\ startswith(code, "A1")
       /\ ~startswith(code, "A1A")
       /\ ~startswith(code, "A1B")
       /\ ~startswith(code, "A1C")
       /\ ~startswith(code, "A1D")
    THEN "Cutting Machine Error"
    ELSE IF startswith(code, "A1") THEN "Cutting Operator Error"
    ELSE IF startswith(code, "A2") \/ startswith(code, "S") THEN "Sewing Operator Error"
    ELSE IF startswith(code, "B1C") \/ startswith(code, "B1E") THEN "Cutting Machine Error"
    ELSE IF startswith(code, "B2") THEN "Sewing Machine Error"
    ELSE IF startswith(code, "B") THEN "Other Machine Error"
    ELSE IF startswith(code, "C") THEN "Material Defect"
    ELSE "Unknown"

reason_code_pattern(code) ==
    IF /\ startswith(code, "A1")
       /\ ~startswith(code, "A1A")
       /\ ~startswith(code, "A1B")
       /\ ~startswith(code, "A1C")
       /\ ~startswith(code, "A1D")
    THEN "Cutting Machine Error"
    ELSE IF startswith(code, "A1") THEN "Cutting Operator Error"
    ELSE IF startswith(code, "A2") \/ startswith(code, "S") THEN "Sewing Operator Error"
    ELSE IF startswith(code, "B1C") \/ startswith(code, "B1E") THEN "Cutting Machine Error"
    ELSE IF startswith(code, "B2") THEN "Sewing Machine Error"
    ELSE IF startswith(code, "B") THEN "Other Machine Error"
    ELSE IF startswith(code, "C") THEN "Material Defect"
    ELSE "Other"

\* prefix = code.split(' ')[0].split('-')[0].strip()
extract_prefix_SpaceOnly(code) == strip(split(code, " ")[1])
extract_prefix(code) == strip(split(split(code, " ")[1], "-")[1])

\* The table looked up with the code upper-cased.
get_department_from_reason_code_IgnoreCase(reason_code) ==
    IF isna(reason_code) THEN "Unknown"
    ELSE LET code == upper(strip(reason_code[1]))
             prefix == extract_prefix(code)
         IN  IF dict_has(SEWING_REPAIRS_DEPT_MAP, code)
             THEN dict_get(SEWING_REPAIRS_DEPT_MAP, code)
             ELSE IF dict_has(SEWING_REPAIRS_DEPT_MAP, prefix)
                  THEN dict_get(SEWING_REPAIRS_DEPT_MAP, prefix)
             ELSE reason_code_pattern(strip(reason_code[1]))

get_department_from_reason_code(reason_code) ==
    IF isna(reason_code) THEN "Unknown"
    ELSE LET code == strip(reason_code[1])
             prefix == extract_prefix(code)
         IN  IF dict_has(SEWING_REPAIRS_DEPT_MAP, code)
             THEN dict_get(SEWING_REPAIRS_DEPT_MAP, code)
             ELSE IF dict_has(SEWING_REPAIRS_DEPT_MAP, prefix)
                  THEN dict_get(SEWING_REPAIRS_DEPT_MAP, prefix)
             ELSE reason_code_pattern(code)

\* first_char = code[0].upper() if code else ''
first_char_Unguarded(code) ==
    LET c == index0(code) IN IF c = IndexError THEN IndexError ELSE upper(c)
first_char(code) == IF code # "" THEN upper(index0(code)) ELSE ""

\* The first-character fallback of get_department_from_recut_code; an
\* exception raised while computing first_char propagates to the caller.
recut_code_first_char_AmsBeforeStar(code) ==
    LET fc == first_char(code) IN
    IF fc = IndexError THEN IndexError
    ELSE IF fc = "A" /\ contains(upper(code), "AMS") THEN "Sewing Machine Error"
    ELSE IF fc = "A" /\ contains(code, "*") THEN "Other Machine Error"
    ELSE IF fc = "A" THEN "Sewing Operator Error"
    ELSE IF fc = "B" THEN "Cutting Operator Error"
    ELSE IF fc = "C" THEN "Cutting Operator Error"
    ELSE IF fc = "D" THEN "Material Defect"
    ELSE IF fc = "E" THEN "Other"
    ELSE IF fc = "F" THEN "Cutting Operator Error"
    ELSE IF fc = "L" THEN "Cutting Machine Error"
    ELSE IF fc = "P" THEN "Other"
    ELSE "Other"

recut_code_first_char(code) ==
    LET fc == first_char(code) IN
    IF fc = IndexError THEN IndexError
    ELSE IF fc = "A" /\ contains(code, "*") THEN "Other Machine Error"
    ELSE IF fc = "A" /\ contains(upper(code), "AMS") THEN "Sewing Machine Error"
    ELSE IF fc = "A" THEN "Sewing Operator Error"
    ELSE IF fc = "B" THEN "Cutting Operator Error"
    ELSE IF fc = "C" THEN "Cutting Operator Error"
    ELSE IF fc = "D" THEN "Material Defect"
    ELSE IF fc = "E" THEN "Other"
    ELSE IF fc = "F" THEN "Cutting Operator Error"
    ELSE IF fc = "L" THEN "Cutting Machine Error"
    ELSE IF fc = "P" THEN "Other"
    ELSE "Other"

\* for k, v in RECUT_LIST_DEPT_MAP.items(): if k.lower() == code.lower(): return v
recut_lowercase_match(code) ==
    LET d == RECUT_LIST_DEPT_MAP
        i == CHOOSE j \in DOMAIN d :
                 /\ lower(d[j][1]) = lower(code)
                 /\ \A k \in 1..(j - 1) : lower(d[k][1]) # lower(code)
    IN  d[i][2]

\* The table matched in the code's own case only.
get_department_from_recut_code_CaseSensitive(code0) ==
    IF isna(code0) THEN "Unknown"
    ELSE LET code == strip(code0[1]) IN
         IF dict_has(RECUT_LIST_DEPT_MAP, code)
         THEN dict_get(RECUT_LIST_DEPT_MAP, code)
         ELSE recut_code_first_char(code)

\* The first-character rules consulted before the table.
get_department_from_recut_code_FirstCharFirst(code0) ==
    IF isna(code0) THEN "Unknown"
    ELSE LET code == strip(code0[1]) IN
         IF first_char(code) \in {"A", "B", "C", "D", "E", "F", "L", "P"}
         THEN recut_code_first_char(code)
         ELSE IF dict_has(RECUT_LIST_DEPT_MAP, code)
              THEN dict_get(RECUT_LIST_DEPT_MAP, code)
         ELSE "Other"

get_department_from_recut_code(code0) ==
    IF isna(code0) THEN "Unknown"
    ELSE LET code == strip(code0[1]) IN
         IF dict_has(RECUT_LIST_DEPT_MAP, code)
         THEN dict_get(RECUT_LIST_DEPT_MAP, code)
         ELSE IF lower(code) \in {lower(k) : k \in dict_keys(RECUT_LIST_DEPT_MAP)}
              THEN recut_lowercase_match(code)
         ELSE recut_code_first_char(code)

(***************************************************************************)
(* Code inputs: None, every string of at most MaxCodeLen characters of     *)
(* CodeChars, and every stem (the keys of both tables in their own, lower  *)
(* and upper case, and some unlisted codes) followed by a suffix, bare and *)
(* padded.                                                                 *)
(***************************************************************************)
CodeChars == {"A", "1", "B", "C", "S", "Z", "a", " ", "-", "*"}

RECURSIVE CodeWords(_)
CodeWords(n) ==
    IF n = 0 THEN {""}
    ELSE LET shorter == CodeWords(n - 1)
         IN  shorter \cup {w \o c : w \in shorter, c \in CodeChars}

CodeStems ==
    LET keys == dict_keys(SEWING_REPAIRS_DEPT_MAP) \cup dict_keys(RECUT_LIST_DEPT_MAP)
    IN  keys \cup {lower(k) : k \in keys} \cup {upper(k) : k \in keys}
             \cup {"A2", "A3", "AX", "X1", "S", "B1", "G", "l", "p", "d", "e", "f"}

CodeSuffixes == {"", "Z", "X", " - x", "-x", " x", "*"}

CodeExamples ==
    {"A1A - Cutting Operator: Cutting Error", "A1 - laser", "A - x", "A1AX",
     "AMS*", "A*MS", "ams error", "a*", "A2a", "A2d", "B1c"}

CodeInputs ==
    CodeWords(MaxCodeLen)
      \cup CodeExamples
      \cup {k \o t : k \in CodeStems, t \in CodeSuffixes}
      \cup {" " \o k \o " " : k \in CodeStems}

(***************************************************************************)
(* The classifiers as a state machine: a caller holds an Optional code and *)
(* classifies it under one of the two schemes.                             *)
(***************************************************************************)
InitCode ==
    /\ pc = "start"
    /\ arg \in {None} \cup {Some(c) : c \in CodeInputs}
    /\ ret = None
    /\ ret2 = None
    /\ raised = FALSE

\* A call's outcome: the value returned, or an exception raised.
Outcome(r) ==
    /\ raised' = (r = IndexError)
    /\ ret' = IF r = IndexError THEN None ELSE Some(r)

GetDepartmentFromReasonCode ==
    /\ pc = "start"
    /\ Outcome(get_department_from_reason_code(arg))
    /\ pc' = "reason"
    /\ UNCHANGED <<arg, ret2>>

GetDepartmentFromRecutCode ==
    /\ pc = "start"
    /\ Outcome(get_department_from_recut_code(arg))
    /\ pc' = "recut"
    /\ UNCHANGED <<arg, ret2>>

NextCode == GetDepartmentFromReasonCode \/ GetDepartmentFromRecutCode

SpecClassify == InitCode /\ [][NextCode]_vars

(***************************************************************************)
(* utils/data_loader.py: the normalizers.                                  *)
(*                                                                         *)
(* A spreadsheet cell that is neither empty nor text is a tagged pair:     *)
(* <<"bool", b>>, <<"int", n>>, <<"float", t>> for the float t/10, and     *)
(* NaN for the float nan.  An empty cell is None and text s is <<s>>.      *)
(***************************************************************************)
NaN == <<"nan", 0>>
BoolCell(b) == <<"bool", b>>
IntCell(n) == <<"int", n>>
FloatCell(tenths) == <<"float", tenths>>

\* type(value)
TypeOf(value) ==
    IF value = None THEN "NoneType"
    ELSE IF Len(value) = 1 THEN "str"
    ELSE IF value = NaN THEN "float"
    ELSE value[1]

\* pd.isna(value)
pd_isna(value) == value = None \/ value = NaN

IsLetter(c) == c \in (DOMAIN UpperMap \cup DOMAIN LowerMap)

\* s.title(): a letter is upper-cased unless the character before it is a
\* letter, in which case it is lower-cased; other characters are kept.
RECURSIVE title_from(_, _)
title_from(s, previous_is_cased) ==
    IF s = "" THEN ""
    ELSE LET c == Head(s) IN
         IF IsLetter(c)
         THEN (IF previous_is_cased THEN LowerChar(c) ELSE UpperChar(c))
                  \o title_from(Tail(s), TRUE)
         ELSE c \o title_from(Tail(s), FALSE)

\* s.capitalize()
capitalize(s) == IF s = "" THEN "" ELSE upper(CharAt(s, 1)) \o lower(SubSeq(s, 2, Len(s)))

\* name.title()
title_CapitalizeWords(s) ==
    LET words == split(s, " ")
    IN  join([i \in DOMAIN words |-> capitalize(words[i])], " ")
title(s) == title_from(s, FALSE)

normalize_name(name) ==
    IF pd_isna(name) THEN None
    ELSE LET n == strip(name[1]) IN
         IF n = "" THEN None ELSE Some(title(n))

\* last_name = rest[0].upper() + rest[1:].lower() if len(rest) > 1 else rest.upper()
smo_last_name_KeepCase(rest) ==
    IF Len(rest) > 1
    THEN upper(CharAt(rest, 1)) \o SubSeq(rest, 2, Len(rest))
    ELSE upper(rest)
smo_last_name(rest) ==
    IF Len(rest) > 1
    THEN upper(CharAt(rest, 1)) \o lower(SubSeq(rest, 2, Len(rest)))
    ELSE upper(rest)

normalize_smo_name(name) ==
    IF pd_isna(name) THEN None
    ELSE LET n == strip(name[1]) IN
         IF n = "" THEN None
         ELSE IF Len(n) <= 1 THEN Some(upper(n))
         ELSE LET first_initial == upper(CharAt(n, 1))
                  rest == SubSeq(n, 2, Len(n))
              IN  IF rest # ""
                  THEN Some(first_initial \o smo_last_name(rest))
                  ELSE Some(first_initial)

\* isinstance(value, (int, float)): return value == 1
number_equals_one_Truthy(value) ==
    IF value[1] = "int" THEN value[2] # 0 ELSE value[2] # 0
number_equals_one(value) ==
    IF value[1] = "int" THEN value[2] = 1 ELSE value[2] = 10

clean_boolean(value) ==
    IF pd_isna(value) THEN FALSE
    ELSE IF TypeOf(value) = "bool" THEN value[2]
    ELSE IF TypeOf(value) \in {"int", "float"} THEN number_equals_one(value)
    ELSE lower(strip(value[1])) \in {"true", "x", "y", "1", "yes"}

(***************************************************************************)
(* Flag inputs: the empty cell, NaN, both booleans, small integers and     *)
(* floats, and every concatenation of at most MaxBoolAtoms atoms.          *)
(***************************************************************************)
BoolAtoms ==
    {"true", "True", "TRUE", "x", "X", "y", "Y", "1", "yes", "Yes",
     "0", "2", ".0", " ", "no", "on", "maybe"}

RECURSIVE BoolWords(_)
BoolWords(n) ==
    IF n = 0 THEN {""}
    ELSE LET shorter == BoolWords(n - 1)
         IN  shorter \cup {w \o a : w \in shorter, a \in BoolAtoms}

BoolInputs ==
    {None, NaN, BoolCell(TRUE), BoolCell(FALSE)}
      \cup {IntCell(n) : n \in -1..MaxBoolNum}
      \cup {FloatCell(t) : t \in {5 * k : k \in 0..(2 * MaxBoolNum)}}
      \cup {Some(s) : s \in BoolWords(MaxBoolAtoms)}

InitBoolean ==
    /\ pc = "start"
    /\ arg \in BoolInputs
    /\ ret = None
    /\ ret2 = None
    /\ raised = FALSE

CleanBoolean ==
    /\ pc = "start"
    /\ ret' = <<clean_boolean(arg)>>
    /\ pc' = "cleaned"
    /\ UNCHANGED <<arg, ret2, raised>>

NextBoolean == CleanBoolean

SpecBoolean == InitBoolean /\ [][NextBoolean]_vars

(***************************************************************************)
(* Name inputs: the empty cell, every concatenation of at most             *)
(* MaxNameAtoms atoms, and the documented operator codes.                  *)
(***************************************************************************)
NameAtoms == {"j", "J", "an", "AN", "mc", "'", "-", " ", "3"}

RECURSIVE NameWords(_)
NameWords(n) ==
    IF n = 0 THEN {""}
    ELSE LET shorter == NameWords(n - 1)
         IN  shorter \cup {w \o a : w \in shorter, a \in NameAtoms}

NameExamples ==
    {"jsmith", "JFERNANDEZ", "dkennedy", " JSmith ", "o'brien", "mary-jane",
     "ANN  marie", "3rd shift"}

NameInputs == NameWords(MaxNameAtoms) \cup NameExamples

InitNames ==
    /\ pc = "start"
    /\ arg \in {None} \cup {Some(s) : s \in NameInputs}
    /\ ret = None
    /\ ret2 = None
    /\ raised = FALSE

NormalizeName ==
    /\ pc = "start"
    /\ ret' = normalize_name(arg)
    /\ pc' = "name"
    /\ UNCHANGED <<arg, ret2, raised>>

NormalizeSmoName ==
    /\ pc = "start"
    /\ ret' = normalize_smo_name(arg)
    /\ pc' = "smo_name"
    /\ UNCHANGED <<arg, ret2, raised>>

NextNames == NormalizeName \/ NormalizeSmoName

SpecNames == InitNames /\ [][NextNames]_vars

(***************************************************************************)
(* utils/data_loader.py: the loaders.                                      *)
(*                                                                         *)
(* A sheet or DataFrame is [columns |-> set of names, rows |-> sequence of *)
(* functions from the column names to cells].  A datetime cell is          *)
(* <<"date", yyyymmdd>>; NaT and the empty cell are None.  Text columns    *)
(* hold None or text.                                                      *)
(***************************************************************************)
SEWING_REPAIRS_COLUMNS ==
    {"Date", "Repair Discovered", "SKU-Colorway-Size", "PR#", "Total Qty",
     "Repair Qty", "Repair Time (min)", "% Repaired", "Reason for Repair",
     "Recut Qty", "Reason for Recut", "Fail Qty", "Reason for Fail",
     "Reason Code", "Manager", "SMO/PA", "CMO"}

RECUT_LIST_COLUMNS ==
    {"CODE", "SKU", "Material", "Cut/Length", "QTY", "Operator/Order#",
     "Order#", "Document_No", "PA", "Time", "Date", "Due Date", "On list",
     "Done", "scrap?", "RECUT?", "FAILED?", "QTY Failed", "Date Scrapped"}

DateCell(d) == <<"date", d>>
NaT == None

DigitChars == "0123456789"
IsDigits(s) ==
    s # "" /\ \A i \in 1..Len(s) : \E d \in 1..Len(DigitChars) : CharAt(s, i) = CharAt(DigitChars, d)
DigitValue(c) == (CHOOSE d \in 1..Len(DigitChars) : CharAt(DigitChars, d) = c) - 1

RECURSIVE ParseDigits(_)
ParseDigits(s) ==
    IF s = "" THEN 0
    ELSE 10 * ParseDigits(SubSeq(s, 1, Len(s) - 1)) + DigitValue(CharAt(s, Len(s)))

\* pd.to_datetime(cell, errors='coerce') on a datetime, an ISO date text
\* (YYYY-MM-DD, with a day that every month has), other text or an empty
\* cell.
to_datetime(cell) ==
    IF pd_isna(cell) THEN NaT
    ELSE IF TypeOf(cell) = "date" THEN cell
    ELSE IF TypeOf(cell) = "str"
         THEN LET parts == split(strip(cell[1]), "-") IN
              IF /\ Len(parts) = 3
                 /\ \A i \in 1..3 : IsDigits(parts[i])
                 /\ Len(parts[1]) = 4 /\ Len(parts[2]) = 2 /\ Len(parts[3]) = 2
                 /\ ParseDigits(parts[2]) \in 1..12
                 /\ ParseDigits(parts[3]) \in 1..28
              THEN DateCell(10000 * ParseDigits(parts[1]) + 100 * ParseDigits(parts[2])
                              + ParseDigits(parts[3]))
              ELSE NaT
    ELSE NaT

\* pd.to_numeric(cell, errors='coerce') on a number, a decimal integer
\* text, other text or an empty cell.
to_numeric(cell) ==
    IF pd_isna(cell) THEN NaN
    ELSE IF TypeOf(cell) \in {"int", "float"} THEN cell
    ELSE IF TypeOf(cell) = "str"
         THEN LET s == strip(cell[1]) IN
              IF IsDigits(s) THEN IntCell(ParseDigits(s))
              ELSE IF Len(s) > 1 /\ CharAt(s, 1) = "-" /\ IsDigits(SubSeq(s, 2, Len(s)))
                   THEN IntCell(0 - ParseDigits(SubSeq(s, 2, Len(s))))
              ELSE NaN
    ELSE NaN

\* .fillna(0).astype(int): NaN becomes 0 and a float is truncated toward zero.
fillna0_astype_int(cell) ==
    IF cell = NaN THEN IntCell(0)
    ELSE IF cell[1] = "float"
         THEN IntCell(IF cell[2] >= 0 THEN cell[2] \div 10 ELSE 0 - ((0 - cell[2]) \div 10))
    ELSE cell

\* pd.to_numeric(df[col], errors='coerce').fillna(0).astype(int)
to_int(cell) == fillna0_astype_int(to_numeric(cell))

\* lambda x: str(x).upper().strip() if pd.notna(x) else None, then
\* .replace({'SEWING': 'SEWING', 'QC': 'QC', 'Qc': 'QC', 'qc': 'QC'})
normalize_repair_discovered(cell) ==
    IF pd_isna(cell) THEN None
    ELSE LET s == strip(upper(cell[1])) IN
         IF s \in {"Qc", "qc"} THEN Some("QC") ELSE Some(s)

\* lambda x: str(x).strip() if pd.notna(x) else None
normalize_code(cell) == IF pd_isna(cell) THEN None ELSE Some(strip(cell[1]))

\* clean_boolean as a cell
clean_boolean_cell(cell) == BoolCell(clean_boolean(cell))

\* df = df[available_cols].copy()
select_columns(df, wanted) ==
    LET cols == df.columns \cap wanted IN
    [columns |-> cols,
     rows |-> [i \in DOMAIN df.rows |-> [c \in cols |-> df.rows[i][c]]]]

\* The function a column is mapped with, by its name in the source.
apply_fn(fn, cell) ==
    CASE fn = "to_datetime" -> to_datetime(cell)
      [] fn = "to_int" -> to_int(cell)
      [] fn = "to_numeric" -> to_numeric(cell)
      [] fn = "normalize_name" -> normalize_name(cell)
      [] fn = "normalize_smo_name" -> normalize_smo_name(cell)
      [] fn = "normalize_repair_discovered" -> normalize_repair_discovered(cell)
      [] fn = "normalize_code" -> normalize_code(cell)
      [] fn = "clean_boolean" -> clean_boolean_cell(cell)

\* for col in cols: if col in df.columns: df[col] = df[col].apply(fn)
apply_columns(df, cols, fn) ==
    [df EXCEPT !.rows =
        [i \in DOMAIN df.rows |->
            [c \in df.columns |->
                IF c \in cols THEN apply_fn(fn, df.rows[i][c]) ELSE df.rows[i][c]]]]

\* df['Department'] = <the departments, one per row>
set_department(df, departments) ==
    [columns |-> df.columns \cup {"Department"},
     rows |-> [i \in DOMAIN df.rows |->
                 [c \in df.columns \cup {"Department"} |->
                     IF c = "Department" THEN departments[i] ELSE df.rows[i][c]]]]

\* df.dropna(subset=['Date'], how='all')
dropna_date(df) == [df EXCEPT !.rows = SelectSeq(df.rows, LAMBDA r : r["Date"] # NaT)]

drop_zero_quantity_AnyZero(df) ==
    [df EXCEPT !.rows = SelectSeq(df.rows, LAMBDA r :
        /\ r["Repair Qty"] # IntCell(0)
        /\ r["Recut Qty"] # IntCell(0)
        /\ r["Fail Qty"] # IntCell(0))]

\* df[~((df['Repair Qty'] == 0) & (df['Recut Qty'] == 0) & (df['Fail Qty'] == 0))]
drop_zero_quantity(df) ==
    [df EXCEPT !.rows = SelectSeq(df.rows, LAMBDA r :
        ~(/\ r["Repair Qty"] = IntCell(0)
          /\ r["Recut Qty"] = IntCell(0)
          /\ r["Fail Qty"] = IntCell(0)))]

\* df[df['QTY'] > 0]
keep_positive_qty(df) == [df EXCEPT !.rows = SelectSeq(df.rows, LAMBDA r : r["QTY"][2] > 0)]

\* A loader's outcome: the frame returned, or the KeyError raised by a
\* subscript with a column the frame does not have.
Ok(df) == <<"ok", df>>
KeyError(col) == <<"KeyError", col>>

\* df['Department'] = df['Reason Code'].apply(get_department_from_reason_code)
sewing_department_RecutScheme(cell) == get_department_from_recut_code(cell)
sewing_department(cell) == get_department_from_reason_code(cell)

\* df['Department'] = df['CODE'].apply(get_department_from_recut_code)
recut_department(cell) == get_department_from_recut_code(cell)

load_sewing_repairs(sheet) ==
    LET df0 == select_columns(sheet, SEWING_REPAIRS_COLUMNS)
        df1 == apply_columns(df0, {"Date"}, "to_datetime")
        df2 == apply_columns(df1, {"Total Qty", "Repair Qty", "Repair Time (min)",
                                   "Recut Qty", "Fail Qty"}, "to_int")
        df3 == apply_columns(df2, {"% Repaired"}, "to_numeric")
        df4 == apply_columns(df3, {"Manager", "CMO"}, "normalize_name")
        df5 == apply_columns(df4, {"SMO/PA"}, "normalize_smo_name")
        df6 == apply_columns(df5, {"Repair Discovered"}, "normalize_repair_discovered")
        df7 == set_department(df6,
                   [i \in DOMAIN df6.rows |->
                       IF "Reason Code" \in df6.columns
                       THEN sewing_department(df6.rows[i]["Reason Code"])
                       ELSE "Unknown"])
        missing == {"Repair Qty", "Recut Qty", "Fail Qty"} \ df7.columns
    IN  IF "Date" \notin df7.columns THEN KeyError("Date")
        ELSE IF missing # {} THEN KeyError(CHOOSE c \in missing : TRUE)
        ELSE Ok(drop_zero_quantity(dropna_date(df7)))

load_recut_list(sheet) ==
    LET df0 == select_columns(sheet, RECUT_LIST_COLUMNS)
        df1 == apply_columns(df0, {"Date", "Due Date", "Date Scrapped"}, "to_datetime")
        df2 == apply_columns(df1, {"QTY", "QTY Failed"}, "to_int")
        df3 == apply_columns(df2, {"On list", "Done", "scrap?", "RECUT?", "FAILED?"},
                             "clean_boolean")
        df4 == apply_columns(df3, {"Operator/Order#", "PA"}, "normalize_name")
        df5 == apply_columns(df4, {"CODE"}, "normalize_code")
        df6 == set_department(df5,
                   [i \in DOMAIN df5.rows |->
                       IF "CODE" \in df5.columns
                       THEN recut_department(df5.rows[i]["CODE"])
                       ELSE "Unknown"])
    IN  IF "Date" \notin df6.columns THEN KeyError("Date")
        ELSE IF "QTY" \notin df6.columns THEN KeyError("QTY")
        ELSE Ok(keep_positive_qty(dropna_date(df6)))

(***************************************************************************)
(* Workbooks: the two sheets of the uploaded file.  The sewing-repairs     *)
(* sheet is described after its header row has been promoted to column     *)
(* names (lines 299-300).  Rows are a typical row with one cell changed;   *)
(* sheets have at most MaxSheetRows rows, or one row and a column missing. *)
(***************************************************************************)
SewingRow ==
    [c \in SEWING_REPAIRS_COLUMNS |->
        CASE c = "Date" -> DateCell(20250115)
          [] c = "Repair Discovered" -> Some("qc")
          [] c = "SKU-Colorway-Size" -> Some("PC-F20-BK-LG")
          [] c = "PR#" -> Some("PR1")
          [] c = "Total Qty" -> IntCell(10)
          [] c = "Repair Qty" -> IntCell(2)
          [] c = "Repair Time (min)" -> IntCell(5)
          [] c = "% Repaired" -> FloatCell(2)
          [] c = "Reason for Repair" -> Some("open seam")
          [] c = "Recut Qty" -> IntCell(0)
          [] c = "Fail Qty" -> IntCell(0)
          [] c = "Reason Code" -> Some("A")
          [] c = "Manager" -> Some("ann marie")
          [] c = "SMO/PA" -> Some("jsmith")
          [] OTHER -> None]

SewingCells ==
    {<<"Date", None>>, <<"Date", Some("2025-01-15")>>, <<"Date", Some("n/a")>>,
     <<"Repair Qty", IntCell(0)>>, <<"Repair Qty", Some("abc")>>,
     <<"Repair Qty", Some("3")>>, <<"Repair Qty", FloatCell(25)>>,
     <<"Recut Qty", IntCell(1)>>, <<"Fail Qty", None>>, <<"Fail Qty", Some("n/a")>>,
     <<"SKU-Colorway-Size", Some("PI-CB")>>, <<"SKU-Colorway-Size", None>>,
     <<"Reason Code", None>>, <<"Reason Code", Some("")>>,
     <<"Reason Code", Some("A1A - Cutting Operator: Cutting Error")>>,
     <<"Reason Code", Some("A1Z")>>, <<"Reason Code", Some(" c2 ")>>,
     <<"Reason Code", Some("B2")>>, <<"Reason Code", Some("X")>>}

SewingRows == {SewingRow} \cup {[SewingRow EXCEPT ![v[1]] = v[2]] : v \in SewingCells}

RecutRow ==
    [c \in RECUT_LIST_COLUMNS |->
        CASE c = "CODE" -> Some("A")
          [] c = "SKU" -> Some("PC-F20-BK")
          [] c = "Material" -> Some("500D")
          [] c = "QTY" -> IntCell(2)
          [] c = "Operator/Order#" -> Some("ann marie")
          [] c = "PA" -> Some("JOHN")
          [] c = "Date" -> DateCell(20250115)
          [] c = "Due Date" -> Some("2025-01-20")
          [] c = "On list" -> Some("x")
          [] c = "Done" -> BoolCell(TRUE)
          [] c = "scrap?" -> IntCell(1)
          [] c = "QTY Failed" -> IntCell(0)
          [] OTHER -> None]

RecutCells ==
    {<<"Date", None>>, <<"Date", Some("n/a")>>,
     <<"QTY", IntCell(0)>>, <<"QTY", IntCell(0 - 1)>>, <<"QTY", None>>,
     <<"QTY", Some("3")>>,
     <<"SKU", Some("PI-CB")>>, <<"SKU", None>>,
     <<"CODE", None>>, <<"CODE", Some("")>>, <<"CODE", Some(" a ")>>,
     <<"CODE", Some("A1A")>>, <<"CODE", Some("A/D")>>, <<"CODE", Some("c")>>,
     <<"CODE", Some("C: Marking error")>>, <<"CODE", Some("AMS*")>>,
     <<"CODE", Some("X")>>}

RecutRows == {RecutRow} \cup {[RecutRow EXCEPT ![v[1]] = v[2]] : v \in RecutCells}

RowSeqs(rows) == UNION {[1..n -> rows] : n \in 0..MaxSheetRows}

Sheet(columns, row) == [columns |-> columns, rows |-> <<[c \in columns |-> row[c]]>>]

SewingSheets ==
    {[columns |-> SEWING_REPAIRS_COLUMNS, rows |-> rs] : rs \in RowSeqs(SewingRows)}
    \cup {Sheet(SEWING_REPAIRS_COLUMNS \ {c}, SewingRow) :
            c \in {"Date", "Repair Qty", "Reason Code", "SKU-Colorway-Size", "CMO"}}

RecutSheets ==
    {[columns |-> RECUT_LIST_COLUMNS, rows |-> rs] : rs \in RowSeqs(RecutRows)}
    \cup {Sheet(RECUT_LIST_COLUMNS \ {c}, RecutRow) :
            c \in {"Date", "QTY", "CODE", "SKU", "PA"}}

Workbooks ==
    {[sewing |-> s, recut |-> Sheet(RECUT_LIST_COLUMNS, RecutRow)] : s \in SewingSheets}
    \cup {[sewing |-> Sheet(SEWING_REPAIRS_COLUMNS, SewingRow), recut |-> r] : r \in RecutSheets}

\* load_data: arg is the workbook, ret the sewing-repairs frame and ret2
\* the recut-list frame; an exception of either loader ends the load.
InitLoad ==
    /\ pc = "start"
    /\ arg \in Workbooks
    /\ ret = None
    /\ ret2 = None
    /\ raised = FALSE

LoadSewingRepairs ==
    /\ pc = "start"
    /\ arg \in Workbooks
    /\ LET r == load_sewing_repairs(arg.sewing) IN
       IF r[1] = "ok"
       THEN /\ ret' = r[2]
            /\ pc' = "sewing_loaded"
            /\ UNCHANGED raised
       ELSE /\ raised' = TRUE
            /\ pc' = "failed"
            /\ UNCHANGED ret
    /\ UNCHANGED <<arg, ret2>>

LoadRecutList ==
    /\ pc = "sewing_loaded"
    /\ LET r == load_recut_list(arg.recut) IN
       IF r[1] = "ok"
       THEN /\ ret2' = r[2]
            /\ pc' = "loaded"
            /\ UNCHANGED raised
       ELSE /\ raised' = TRUE
            /\ pc' = "failed"
            /\ UNCHANGED ret2
    /\ UNCHANGED <<arg, ret>>

NextLoad == LoadSewingRepairs \/ LoadRecutList

SpecLoad == InitLoad /\ [][NextLoad]_vars

(***************************************************************************)
(* utils/sku_utils.py and utils/data_loader.py: what the aggregation layer *)
(* calls on a loaded frame.  A call is described by the frame the caller   *)
(* holds after it (caller) and the frame it returns (result); a grouped    *)
(* result is the function from each group key to its aggregates.           *)
(***************************************************************************)
Call(caller, result) == [caller |-> caller, result |-> result]

\* df['Parent_SKU'] = <the parent SKUs, one per row>
set_parent_sku(df, parents) ==
    [columns |-> df.columns \cup {"Parent_SKU"},
     rows |-> [i \in DOMAIN df.rows |->
                 [c \in df.columns \cup {"Parent_SKU"} |->
                     IF c = "Parent_SKU" THEN parents[i] ELSE df.rows[i][c]]]]

add_parent_sku_column_NoAlternate(df, sku_col) ==
    IF sku_col \notin df.columns
    THEN LET same == set_parent_sku(df, [i \in DOMAIN df.rows |-> None]) IN Call(same, same)
    ELSE Call(df, set_parent_sku(df, [i \in DOMAIN df.rows |-> get_parent_sku(df.rows[i][sku_col])]))

\* Without either SKU column the assignment is made on the caller's frame,
\* which is also what is returned; otherwise on a copy.
add_parent_sku_column(df, sku_col) ==
    IF sku_col \notin df.columns /\ "SKU-Colorway-Size" \notin df.columns
    THEN LET same == set_parent_sku(df, [i \in DOMAIN df.rows |-> None]) IN Call(same, same)
    ELSE LET col == IF sku_col \in df.columns THEN sku_col ELSE "SKU-Colorway-Size" IN
         Call(df, set_parent_sku(df, [i \in DOMAIN df.rows |-> get_parent_sku(df.rows[i][col])]))

RECURSIVE sum_column(_, _, _)
sum_column(rows, key, col) ==
    IF rows = <<>> THEN 0
    ELSE (IF Head(rows)["Parent_SKU"] = key THEN Head(rows)[col][2] ELSE 0)
           + sum_column(Tail(rows), key, col)

\* df.groupby('Parent_SKU'): rows without a Parent_SKU belong to no group.
group_keys(df) == {df.rows[i]["Parent_SKU"] : i \in DOMAIN df.rows} \ {None}

group_size(df, key) == Cardinality({i \in DOMAIN df.rows : df.rows[i]["Parent_SKU"] = key})

\* agg_funcs is None: every value column the frame has is summed; with no
\* such column the groups are counted.
aggregate_by_parent_sku(df, value_cols) ==
    LET added == IF "Parent_SKU" \notin df.columns
                 THEN add_parent_sku_column(df, "SKU")
                 ELSE Call(df, df)
        d == added.result
        agg_funcs == value_cols \cap d.columns
    IN  Call(added.caller,
             IF agg_funcs = {}
             THEN [k \in group_keys(d) |-> [c \in {"Count"} |-> group_size(d, k)]]
             ELSE [k \in group_keys(d) |-> [c \in agg_funcs |-> sum_column(d.rows, k, c)]])

\* if 'Department' not in df.columns or not departments: return df
\* return df[df['Department'].isin(departments)]
filter_by_department(df, departments) ==
    IF "Department" \notin df.columns \/ departments = {} THEN df
    ELSE [df EXCEPT !.rows = SelectSeq(df.rows, LAMBDA r : r["Department"] \in departments)]

get_cutting_errors_sewing_repairs(df) == filter_by_department(df, {"Cutting"})
get_cutting_errors_recut_list(df) == filter_by_department(df, {"Cutting"})
get_sewing_errors_sewing_repairs(df) == filter_by_department(df, {"Sewing"})
get_sewing_errors_recut_list(df) == filter_by_department(df, {"Sewing"})

(***************************************************************************)
(* The aggregation layer as a state machine.  It starts where load_data    *)
(* has returned: arg is a frame the caller holds, of the sewing-repairs or *)
(* the recut-list kind, loaded from a sheet whose rows differ in their SKU *)
(* and code cells or which lacks a column.  Each action is one call on the *)
(* caller's frame; ret is what the call returned, ret2 the argument it was *)
(* given besides the frame, and pc names the call.                         *)
(***************************************************************************)
SewingSkuRows ==
    {r \in SewingRows : \A c \in SEWING_REPAIRS_COLUMNS \ {"SKU-Colorway-Size", "Reason Code"} :
                            r[c] = SewingRow[c]}

RecutSkuRows ==
    {r \in RecutRows : \A c \in RECUT_LIST_COLUMNS \ {"SKU", "CODE"} : r[c] = RecutRow[c]}

LoadedSewingRepairs ==
    {load_sewing_repairs(s)[2] :
        s \in {[columns |-> SEWING_REPAIRS_COLUMNS, rows |-> rs] : rs \in RowSeqs(SewingSkuRows)}
              \cup {Sheet(SEWING_REPAIRS_COLUMNS \ {c}, SewingRow) :
                      c \in {"Reason Code", "SKU-Colorway-Size", "CMO"}}}

LoadedRecutList ==
    {load_recut_list(s)[2] :
        s \in {[columns |-> RECUT_LIST_COLUMNS, rows |-> rs] : rs \in RowSeqs(RecutSkuRows)}
              \cup {Sheet(RECUT_LIST_COLUMNS \ {c}, RecutRow) : c \in {"CODE", "SKU", "PA"}}}

Frames ==
    {[kind |-> "sewing_repairs", df |-> f] : f \in LoadedSewingRepairs}
    \cup {[kind |-> "recut_list", df |-> f] : f \in LoadedRecutList}

InitConsume ==
    /\ pc = "loaded"
    /\ arg \in Frames
    /\ ret = None
    /\ ret2 = None
    /\ raised = FALSE

Returns(call, name, parameter) ==
    /\ arg' = [arg EXCEPT !.df = call.caller]
    /\ ret' = call.result
    /\ ret2' = parameter
    /\ pc' = name
    /\ UNCHANGED raised

AddParentSkuColumn ==
    \E sku_col \in {"SKU", "SKU-Colorway-Size"} :
        Returns(add_parent_sku_column(arg.df, sku_col), "add_parent_sku_column", Some(sku_col))

AggregateByParentSku ==
    \E value_cols \in {{}, {"QTY"}, {"Repair Qty", "Fail Qty"}} :
        Returns(aggregate_by_parent_sku(arg.df, value_cols), "aggregate_by_parent_sku", value_cols)

GetCuttingErrorsSewingRepairs ==
    /\ arg.kind = "sewing_repairs"
    /\ Returns(Call(arg.df, get_cutting_errors_sewing_repairs(arg.df)),
               "get_cutting_errors_sewing_repairs", None)

GetCuttingErrorsRecutList ==
    /\ arg.kind = "recut_list"
    /\ Returns(Call(arg.df, get_cutting_errors_recut_list(arg.df)),
               "get_cutting_errors_recut_list", None)

GetSewingErrorsSewingRepairs ==
    /\ arg.kind = "sewing_repairs"
    /\ Returns(Call(arg.df, get_sewing_errors_sewing_repairs(arg.df)),
               "get_sewing_errors_sewing_repairs", None)

GetSewingErrorsRecutList ==
    /\ arg.kind = "recut_list"
    /\ Returns(Call(arg.df, get_sewing_errors_recut_list(arg.df)),
               "get_sewing_errors_recut_list", None)

NextConsume ==
    \/ AddParentSkuColumn
    \/ AggregateByParentSku
    \/ GetCuttingErrorsSewingRepairs
    \/ GetCuttingErrorsRecutList
    \/ GetSewingErrorsSewingRepairs
    \/ GetSewingErrorsRecutList

SpecConsume == InitConsume /\ [][NextConsume]_vars

(***************************************************************************)
(* Per-record derivation in any order.  arg is a collection of records of  *)
(* one sheet kind, each with a name, a code and a SKU; ret holds, per      *)
(* record, the values derived so far (<<>> while a call is outstanding);   *)
(* ret2 holds the module-level tables.  Each action is one call of the     *)
(* normalizer, the sheet's classifier or the resolver on one record, and   *)
(* the calls may come in any order.                                        *)
(***************************************************************************)
Tables ==
    [COLOR_CODES |-> COLOR_CODES,
     SKU_EXCEPTIONS |-> SKU_EXCEPTIONS,
     SEWING_REPAIRS_DEPT_MAP |-> SEWING_REPAIRS_DEPT_MAP,
     RECUT_LIST_DEPT_MAP |-> RECUT_LIST_DEPT_MAP]

Records ==
    {[name |-> Some("ann marie"), code |-> c, sku |-> s] :
        c \in {None, Some("A")}, s \in {None, Some("AC-ESE-BK")}}

Collections ==
    {[kind |-> k, records |-> rs] :
        k \in {"sewing_repairs", "recut_list"},
        rs \in UNION {[1..n -> Records] : n \in 1..MaxRecords}}

Pending == [name |-> <<>>, Department |-> <<>>, Parent_SKU |-> <<>>]

\* A call that reads a neighbouring record's result when its own code is
\* empty, as a fill-down of the code column would.
derive_department_FillDown(kind, records, derived, i) ==
    IF records[i].code = None /\ i > 1 /\ derived[i - 1].Department # <<>>
    THEN derived[i - 1].Department[1]
    ELSE IF kind = "sewing_repairs"
         THEN get_department_from_reason_code(records[i].code)
         ELSE get_department_from_recut_code(records[i].code)

\* df['Reason Code'].apply(get_department_from_reason_code) resp.
\* df['CODE'].apply(get_department_from_recut_code), for one record
derive_department(kind, records, derived, i) ==
    IF kind = "sewing_repairs"
    THEN get_department_from_reason_code(records[i].code)
    ELSE get_department_from_recut_code(records[i].code)

AllDerived(derived) ==
    \A i \in DOMAIN derived :
        derived[i].name # <<>> /\ derived[i].Department # <<>> /\ derived[i].Parent_SKU # <<>>

InitRecords ==
    /\ pc = "deriving"
    /\ arg \in Collections
    /\ ret = [i \in DOMAIN arg.records |-> Pending]
    /\ ret2 = Tables
    /\ raised = FALSE

Derived(derived) ==
    /\ ret' = derived
    /\ pc' = IF AllDerived(derived) THEN "derived" ELSE "deriving"
    /\ UNCHANGED <<arg, ret2, raised>>

NormalizeRecord ==
    \E i \in DOMAIN arg.records :
        /\ ret[i].name = <<>>
        /\ Derived([ret EXCEPT ![i].name = <<normalize_name(arg.records[i].name)>>])

ClassifyRecord ==
    \E i \in DOMAIN arg.records :
        /\ ret[i].Department = <<>>
        /\ Derived([ret EXCEPT ![i].Department =
                       <<derive_department(arg.kind, arg.records, ret, i)>>])

ResolveRecord ==
    \E i \in DOMAIN arg.records :
        /\ ret[i].Parent_SKU = <<>>
        /\ Derived([ret EXCEPT ![i].Parent_SKU = <<get_parent_sku(arg.records[i].sku)>>])

NextRecords == NormalizeRecord \/ ClassifyRecord \/ ResolveRecord

SpecRecords == InitRecords /\ [][NextRecords]_vars

(***************************************************************************)
(* Properties of get_parent_sku, checked under SpecSku.                    *)
(***************************************************************************)
Resolved == pc \in {"resolved", "resolved_twice"}

\* The trimmed input and its hyphen-delimited segments.
Trimmed == strip(arg[1])
Segments == split(Trimmed, "-")

IsBlank(s) == \A i \in 1..Len(s) : CharAt(s, i) \in Whitespace
SameIgnoringCase(s, t) == lower(s) = lower(t)
InColorVocabulary(seg) == \E c \in COLOR_CODES : SameIgnoringCase(seg, c)
NonColorSegments == SelectSeq(Segments, LAMBDA seg : ~InColorVocabulary(seg))

\* C1: get_parent_sku is idempotent: for every non-null input string s,
\* get_parent_sku(get_parent_sku(s)) equals get_parent_sku(s).
C1_Idempotent ==
    (pc = "resolved_twice" /\ arg # None) => ret2 = ret

\* C2: for every SKU whose trimmed form is in the exception set,
\* get_parent_sku returns the trimmed SKU unchanged, even when one of its
\* segments is in the color vocabulary.
C2_ExceptionUnchanged ==
    (Resolved /\ arg # None /\ Trimmed \in {"PI-CB", "MI-556-TR", "MI-556-SN"})
        => ret = Some(Trimmed)

C2_Witness ==
    /\ pc = "resolved"
    /\ arg = Some(" PI-CB ")
    /\ ret = Some("PI-CB")
    /\ \E i \in DOMAIN Segments : InColorVocabulary(Segments[i])

\* C3: for every non-blank, non-exception SKU with at least one non-color
\* segment, get_parent_sku returns the hyphen-join of the trimmed input's
\* segments with those in the 17-entry color vocabulary (compared in upper
\* case) removed; every other segment, size codes included, is kept in its
\* original order and casing.
C3_ColorSegmentsRemoved ==
    /\ Cardinality(COLOR_CODES) = 17
    /\ (Resolved /\ arg # None /\ ~IsBlank(arg[1])
          /\ Trimmed \notin SKU_EXCEPTIONS /\ NonColorSegments # <<>>)
         => /\ ret = Some(join(NonColorSegments, "-"))
            /\ \A z \in SIZE_CODES :
                 \A i \in DOMAIN Segments :
                    Segments[i] = z => \E j \in DOMAIN split(ret[1], "-") :
                                           split(ret[1], "-")[j] = z
    /\ (Resolved /\ arg = Some("PC-F20-BK-LG")) => ret = Some("PC-F20-LG")
    /\ (Resolved /\ arg = Some("CR-AL-BK")) => ret = Some("CR-AL")
    /\ (Resolved /\ arg = Some("AC-ESE-BK")) => ret = Some("AC-ESE")

C3_Witness ==
    /\ pc = "resolved"
    /\ arg = Some("bk-AC")
    /\ ret = Some("AC")

\* C4: when every segment of a non-blank, non-exception SKU is dropped as
\* a color code, get_parent_sku returns the trimmed string unchanged rather
\* than an empty string.
C4_AllColorsKeepsOriginal ==
    (Resolved /\ arg # None /\ ~IsBlank(arg[1])
       /\ Trimmed \notin SKU_EXCEPTIONS /\ NonColorSegments = <<>>)
      => ret = Some(Trimmed)

C4_Witness ==
    /\ pc = "resolved"
    /\ arg = Some("BK-CB")
    /\ ret = Some("BK-CB")

\* C5: get_parent_sku returns None, and never raises, for a null, empty or
\* whitespace-only SKU; for every other input it returns a string.
C5_NoneIffBlank ==
    Resolved =>
      /\ ~raised
      /\ (arg = None \/ IsBlank(arg[1])) => ret = None
      /\ (arg # None /\ ~IsBlank(arg[1])) => (Len(ret) = 1 /\ ret[1] \in STRING)

C5_Witness ==
    /\ pc = "resolved"
    /\ arg = Some("  ")
    /\ ret = None

(***************************************************************************)
(* Properties of the two classifiers, checked under SpecClassify.          *)
(***************************************************************************)
Classified == pc \in {"reason", "recut"}

ErrorSources ==
    {"Cutting Operator Error", "Sewing Operator Error", "Cutting Machine Error",
     "Sewing Machine Error", "Other Machine Error", "Material Defect",
     "Other", "Unknown"}

\* The whole trimmed code, or the token before its first space and hyphen,
\* is a key of the Scheme A table.
MatchesSchemeATable ==
    LET keys == dict_keys(SEWING_REPAIRS_DEPT_MAP)
        token == strip(Head(split(Head(split(Trimmed, " ")), "-")))
    IN  Trimmed \in keys \/ token \in keys

\* A Scheme A fallback pattern applies to the trimmed code.
MatchesSchemeAPattern ==
    \E p \in {"A1", "A2", "S", "B1C", "B1E", "B2", "B", "C"} : startswith(Trimmed, p)

\* The trimmed code is a key of the Scheme B table, in some case.
MatchesSchemeBTable ==
    \E k \in dict_keys(RECUT_LIST_DEPT_MAP) : SameIgnoringCase(Trimmed, k)

\* A Scheme B first-character rule applies to the trimmed code.
MatchesSchemeBFirstChar ==
    \E c \in {"A", "B", "C", "D", "E", "F", "L", "P"} :
        Trimmed # "" /\ SameIgnoringCase(CharAt(Trimmed, 1), c)

\* C6: for every key of the Scheme A table get_department_from_reason_code
\* returns the table's value, and for every key of the Scheme B table
\* get_department_from_recut_code returns the table's value; no fallback
\* rule overrides a table entry.
C6_TableEntriesExact ==
    /\ pc = "reason" =>
         \A i \in DOMAIN SEWING_REPAIRS_DEPT_MAP :
            arg = Some(SEWING_REPAIRS_DEPT_MAP[i][1])
                => ret = Some(SEWING_REPAIRS_DEPT_MAP[i][2])
    /\ pc = "recut" =>
         \A i \in DOMAIN RECUT_LIST_DEPT_MAP :
            arg = Some(RECUT_LIST_DEPT_MAP[i][1])
                => ret = Some(RECUT_LIST_DEPT_MAP[i][2])
    /\ (pc = "reason" /\ arg = Some("A1A")) => ret = Some("Cutting Operator Error")
    /\ (pc = "reason" /\ arg = Some("A1")) => ret = Some("Cutting Machine Error")
    /\ (pc = "reason" /\ arg = Some("A")) => ret = Some("Sewing Machine Error")
    /\ (pc = "recut" /\ arg = Some("F: Material Cut Too Short"))
         => ret = Some("Cutting Operator Error")

C6_Witness ==
    /\ pc = "recut"
    /\ arg = Some("A/D")
    /\ ret = Some("Other")

\* C7: for every null, empty or whitespace-only code, both classifiers
\* return 'Unknown'.
C7_BlankIsUnknown ==
    (Classified /\ (arg = None \/ IsBlank(arg[1]))) => ret = Some("Unknown")

\* C8: both classifiers are total over null and every string, and their
\* result is always one of the eight ErrorSource values; no input leads to
\* an error outcome.
C8_TotalIntoErrorSources ==
    Classified => (~raised /\ Len(ret) = 1 /\ ret[1] \in ErrorSources)

C8_Witness ==
    /\ pc = "recut"
    /\ arg = Some("")
    /\ ~raised
    /\ ret = Some("Other")

\* C9: 'Unknown' is returned only for null input, and every non-null code
\* that matches no table lookup (exact or prefix; in any case for Scheme B)
\* and no fallback rule is classified 'Other'.
C9_UnknownOnlyNullOtherwiseOther ==
    /\ (Classified /\ ret = Some("Unknown")) => arg = None
    /\ (pc = "reason" /\ arg # None /\ ~MatchesSchemeATable /\ ~MatchesSchemeAPattern)
         => ret = Some("Other")
    /\ (pc = "recut" /\ arg # None /\ ~MatchesSchemeBTable /\ ~MatchesSchemeBFirstChar)
         => ret = Some("Other")

C9_Witness ==
    /\ pc = "reason"
    /\ arg = Some("X1")
    /\ ~MatchesSchemeATable
    /\ ~MatchesSchemeAPattern
    /\ ret = Some("Other")

\* C10 as stated: an unlisted A1 variant such as 'A1Z' (starts with 'A1', is
\* not A1A/A1B/A1C/A1D, no table match after prefix extraction) is
\* classified by get_department_from_reason_code as 'Cutting Operator Error'.
C10_UnlistedA1IsCuttingOperator ==
    (pc = "reason" /\ arg # None /\ startswith(Trimmed, "A1")
       /\ Trimmed \notin {"A1A", "A1B", "A1C", "A1D"} /\ ~MatchesSchemeATable)
      => ret = Some("Cutting Operator Error")

\* C10 as amended: a code that starts with 'A1', does not start with A1A,
\* A1B, A1C or A1D, and has no table match after prefix extraction is
\* classified by get_department_from_reason_code as 'Cutting Machine Error'.
C10_UnlistedA1IsCuttingMachine ==
    (pc = "reason" /\ arg # None /\ startswith(Trimmed, "A1")
       /\ (\A k \in {"A1A", "A1B", "A1C", "A1D"} : ~startswith(Trimmed, k))
       /\ ~MatchesSchemeATable)
      => ret = Some("Cutting Machine Error")

C10_Witness ==
    /\ pc = "reason"
    /\ arg = Some("A1Z")
    /\ ~MatchesSchemeATable
    /\ ret = Some("Cutting Machine Error")

C12_SmoNameFormat ==
    /\ (pc = "smo_name" /\ arg # None /\ ~IsBlank(arg[1])) =>
          IF Len(Trimmed) >= 2
          THEN ret = Some(UpperChar(CharAt(Trimmed, 1)) \o UpperChar(CharAt(Trimmed, 2))
                            \o lower(SubSeq(Trimmed, 3, Len(Trimmed))))
          ELSE ret = Some(UpperChar(Trimmed))
    /\ (pc = "smo_name" /\ arg = Some("JFERNANDEZ")) => ret = Some("JFernandez")
    /\ (pc = "smo_name" /\ arg = Some("dkennedy")) => ret = Some("DKennedy")

C12_Witness ==
    /\ pc = "smo_name"
    /\ arg = Some("JFERNANDEZ")
    /\ ret = Some("JFernandez")

\* No letter precedes position i within its whitespace-delimited word.
FirstLetterOfWord(s, i) ==
    /\ IsLetter(CharAt(s, i))
    /\ \A j \in 1..(i - 1) :
          IsLetter(CharAt(s, j)) => \E k \in j..(i - 1) : CharAt(s, k) \in Whitespace

\* s with the first letter of each whitespace-delimited word uppercase and
\* all its other letters lowercase.
WordsCapitalized(s, r) ==
    /\ Len(r) = Len(s)
    /\ \A i \in 1..Len(s) :
          CharAt(r, i) = IF ~IsLetter(CharAt(s, i)) THEN CharAt(s, i)
                         ELSE IF FirstLetterOfWord(s, i) THEN UpperChar(CharAt(s, i))
                         ELSE LowerChar(CharAt(s, i))

\* s with every letter that does not follow a letter uppercase and every
\* letter that follows a letter lowercase.
TitleCased(s, r) ==
    /\ Len(r) = Len(s)
    /\ \A i \in 1..Len(s) :
          CharAt(r, i) = IF ~IsLetter(CharAt(s, i)) THEN CharAt(s, i)
                         ELSE IF i = 1 \/ ~IsLetter(CharAt(s, i - 1))
                              THEN UpperChar(CharAt(s, i))
                         ELSE LowerChar(CharAt(s, i))

\* C13 as stated: normalize_name returns None for null, empty and
\* whitespace-only input, and otherwise the trimmed input with the first
\* letter of each whitespace-delimited word uppercase and all its other
\* letters lowercase, also for words with digits, apostrophes or hyphens.
C13_NameWordsCapitalized ==
    pc = "name" =>
      IF arg = None \/ IsBlank(arg[1]) THEN ret = None
      ELSE ret # None /\ WordsCapitalized(Trimmed, ret[1])

\* C13 as amended: normalize_name returns None for null, empty and
\* whitespace-only input, and otherwise the trimmed input in title case:
\* every letter not preceded by a letter is uppercase and every letter
\* preceded by a letter is lowercase, so that a word is capitalized again
\* after a digit, apostrophe or hyphen.
C13_NameTitleCased ==
    pc = "name" =>
      IF arg = None \/ IsBlank(arg[1]) THEN ret = None
      ELSE ret # None /\ TitleCased(Trimmed, ret[1])

C13_Witness ==
    /\ pc = "name"
    /\ arg = Some("o'brien")
    /\ ret = Some("O'Brien")

(***************************************************************************)
(* Further properties of get_parent_sku, checked under SpecSku.            *)
(***************************************************************************)
ResultSegments == split(ret[1], "-")

\* C14 as stated: after get_parent_sku runs on any non-exception SKU, no
\* segment of the result is in the color vocabulary (case-insensitively).
C14_NoColorSegmentRemains ==
    (Resolved /\ arg # None /\ ~IsBlank(arg[1]) /\ Trimmed \notin SKU_EXCEPTIONS)
      => \A i \in DOMAIN ResultSegments : ~InColorVocabulary(ResultSegments[i])

\* C14 as amended: after get_parent_sku runs on a non-exception SKU that has
\* at least one non-color segment, no segment of the result is in the color
\* vocabulary (case-insensitively); exception SKUs and SKUs made up of color
\* codes only are returned with their color tokens.
C14_NoColorSegmentRemainsUnlessAllColors ==
    /\ (Resolved /\ arg # None /\ ~IsBlank(arg[1]) /\ Trimmed \notin SKU_EXCEPTIONS
           /\ NonColorSegments # <<>>)
         => \A i \in DOMAIN ResultSegments : ~InColorVocabulary(ResultSegments[i])
    /\ (Resolved /\ arg # None /\ ~IsBlank(arg[1]) /\ Trimmed \notin SKU_EXCEPTIONS
           /\ NonColorSegments = <<>>)
         => \A i \in DOMAIN ResultSegments : InColorVocabulary(ResultSegments[i])

C14_Witness ==
    /\ pc = "resolved"
    /\ arg = Some("PI-CB-LG")
    /\ ret = Some("PI-LG")

(***************************************************************************)
(* Further properties of the classifiers, checked under SpecClassify.      *)
(***************************************************************************)
InSchemeAFallback == pc = "reason" /\ arg # None /\ ~MatchesSchemeATable
InSchemeBFallback == pc = "recut" /\ arg # None /\ ~MatchesSchemeBTable

A1SubCodes == {"A1A", "A1B", "A1C", "A1D"}

\* C15 as stated: in the Scheme A pattern fallback every code that starts
\* with 'A1' and is not exactly one of A1A, A1B, A1C, A1D is classified
\* 'Cutting Machine Error', codes such as 'A1AX' included.
C15_A1NotExactIsCuttingMachine ==
    (InSchemeAFallback /\ startswith(Trimmed, "A1") /\ Trimmed \notin A1SubCodes)
      => ret = Some("Cutting Machine Error")

\* C15 as amended: in the Scheme A pattern fallback every code that starts
\* with 'A1' and does not start with A1A, A1B, A1C or A1D is classified
\* 'Cutting Machine Error'; a code that starts with one of those four, such
\* as 'A1AX', is classified 'Cutting Operator Error'.
C15_A1FallbackByThirdCharacter ==
    InSchemeAFallback =>
      /\ (startswith(Trimmed, "A1") /\ \A k \in A1SubCodes : ~startswith(Trimmed, k))
            => ret = Some("Cutting Machine Error")
      /\ (\E k \in A1SubCodes : startswith(Trimmed, k))
            => ret = Some("Cutting Operator Error")

C15_Witness ==
    /\ pc = "reason"
    /\ arg = Some("A1AX")
    /\ ~MatchesSchemeATable
    /\ ret = Some("Cutting Operator Error")

\* C16: in the Scheme A pattern fallback, for codes not starting with 'A1':
\* starts with 'A2' or 'S' -> Sewing Operator Error; 'B1C' or 'B1E' ->
\* Cutting Machine Error; 'B2' -> Sewing Machine Error; any other 'B' ->
\* Other Machine Error; 'C' -> Material Defect; anything else -> Other.
C16_SchemeAFallbackPrecedence ==
    /\ (InSchemeAFallback /\ ~startswith(Trimmed, "A1")) =>
         ret = Some(
           CASE startswith(Trimmed, "A2") \/ startswith(Trimmed, "S") -> "Sewing Operator Error"
             [] startswith(Trimmed, "B1C") \/ startswith(Trimmed, "B1E") -> "Cutting Machine Error"
             [] startswith(Trimmed, "B2") -> "Sewing Machine Error"
             [] /\ startswith(Trimmed, "B")
                /\ \A p \in {"B1C", "B1E", "B2"} : ~startswith(Trimmed, p) -> "Other Machine Error"
             [] startswith(Trimmed, "C") -> "Material Defect"
             [] OTHER -> "Other")
    /\ (pc = "reason" /\ arg \in {Some("A3"), Some("AX"), Some("X1")})
         => ret = Some("Other")

C16_Witness ==
    /\ pc = "reason"
    /\ arg = Some("B2X")
    /\ ~MatchesSchemeATable
    /\ ret = Some("Sewing Machine Error")

\* C17: for every Scheme A table key k and every suffix text t, a code of
\* the form k + ' ' + t or k + '-' + t is classified with the table value of
\* k: the prefix retry takes precedence over the pattern fallback.
C17_PrefixRetryBeforeFallback ==
    /\ (pc = "reason" /\ arg # None) =>
         \A i \in DOMAIN SEWING_REPAIRS_DEPT_MAP :
            LET k == SEWING_REPAIRS_DEPT_MAP[i][1] IN
            (startswith(arg[1], k \o " ") \/ startswith(arg[1], k \o "-"))
               => ret = Some(SEWING_REPAIRS_DEPT_MAP[i][2])
    /\ (pc = "reason" /\ arg = Some("A1A - Cutting Operator: Cutting Error"))
         => ret = Some("Cutting Operator Error")
    /\ (pc = "reason" /\ arg = Some("A1 - laser")) => ret = Some("Cutting Machine Error")
    /\ (pc = "reason" /\ arg = Some("A - x")) => ret = Some("Sewing Machine Error")

C17_Witness ==
    /\ pc = "reason"
    /\ arg = Some("A-x")
    /\ ret = Some("Sewing Machine Error")

\* C18: get_department_from_recut_code matches the Scheme B table
\* case-insensitively: for every trimmed code whose lowercase form equals
\* the lowercase form of a table key, the result is that key's table value,
\* and the first-character fallback is not consulted.
C18_SchemeBCaseInsensitive ==
    /\ (pc = "recut" /\ arg # None) =>
         \A i \in DOMAIN RECUT_LIST_DEPT_MAP :
            SameIgnoringCase(Trimmed, RECUT_LIST_DEPT_MAP[i][1])
               => ret = Some(RECUT_LIST_DEPT_MAP[i][2])
    /\ (pc = "recut" /\ arg = Some("ams")) => ret = Some("Sewing Machine Error")
    /\ (pc = "recut" /\ arg = Some("d: material defect")) => ret = Some("Material Defect")
    /\ (pc = "recut" /\ arg = Some("a/d")) => ret = Some("Other")

C18_Witness ==
    /\ pc = "recut"
    /\ arg = Some("a/d")
    /\ Some(Trimmed) \notin {Some(k) : k \in dict_keys(RECUT_LIST_DEPT_MAP)}
    /\ ret = Some("Other")

FirstCharIs(c) == Trimmed # "" /\ SameIgnoringCase(CharAt(Trimmed, 1), c)

\* C19: in the Scheme B fallback the result is decided by the uppercased
\* first character: A with '*' -> Other Machine Error; A with 'AMS' in any
\* case -> Sewing Machine Error; A -> Sewing Operator Error; B or C ->
\* Cutting Operator Error; D -> Material Defect; E -> Other; F -> Cutting
\* Operator Error; L -> Cutting Machine Error; P -> Other; any other first
\* character -> Other.
C19_SchemeBFallbackPrecedence ==
    InSchemeBFallback =>
      ret = Some(
        CASE FirstCharIs("A") /\ contains(Trimmed, "*") -> "Other Machine Error"
          [] FirstCharIs("A") /\ ~contains(Trimmed, "*") /\ contains(lower(Trimmed), "ams")
               -> "Sewing Machine Error"
          [] FirstCharIs("A") /\ ~contains(Trimmed, "*") /\ ~contains(lower(Trimmed), "ams")
               -> "Sewing Operator Error"
          [] FirstCharIs("B") \/ FirstCharIs("C") \/ FirstCharIs("F") -> "Cutting Operator Error"
          [] FirstCharIs("D") -> "Material Defect"
          [] FirstCharIs("L") -> "Cutting Machine Error"
          [] OTHER -> "Other")

C19_Witness ==
    /\ pc = "recut"
    /\ arg = Some("AMS*")
    /\ ~MatchesSchemeBTable
    /\ ret = Some("Other Machine Error")

(***************************************************************************)
(* Properties of the loaders, checked under SpecLoad.                      *)
(***************************************************************************)
CodeOf(row, col) == IF col \in DOMAIN row THEN row[col] ELSE None

SewingLoaded == pc \in {"sewing_loaded", "loaded"}
RecutLoaded == pc = "loaded"

\* C20: every sewing-repairs record's Department is
\* get_department_from_reason_code of its own Reason Code and every
\* recut-list record's Department is get_department_from_recut_code of its
\* own CODE; code 'A' is Sewing Machine Error on the sewing-repairs sheet
\* and Sewing Operator Error on the recut list.
C20_DepartmentBySheetScheme ==
    /\ SewingLoaded =>
         \A i \in DOMAIN ret.rows :
            LET row == ret.rows[i] IN
            /\ row["Department"] = get_department_from_reason_code(CodeOf(row, "Reason Code"))
            /\ CodeOf(row, "Reason Code") = Some("A") => row["Department"] = "Sewing Machine Error"
    /\ RecutLoaded =>
         \A i \in DOMAIN ret2.rows :
            LET row == ret2.rows[i] IN
            /\ row["Department"] = get_department_from_recut_code(CodeOf(row, "CODE"))
            /\ CodeOf(row, "CODE") = Some("A") => row["Department"] = "Sewing Operator Error"

C20_Witness ==
    /\ RecutLoaded
    /\ \E i \in DOMAIN ret.rows :
          /\ ret.rows[i]["Reason Code"] = Some("A")
          /\ ret.rows[i]["Department"] = "Sewing Machine Error"
    /\ \E i \in DOMAIN ret2.rows :
          /\ ret2.rows[i]["CODE"] = Some("A")
          /\ ret2.rows[i]["Department"] = "Sewing Operator Error"

SewingQuantities == {"Repair Qty", "Recut Qty", "Fail Qty"}
SewingIntegerFields == {"Total Qty", "Repair Qty", "Repair Time (min)", "Recut Qty", "Fail Qty"}
RecutIntegerFields == {"QTY", "QTY Failed"}

\* The raw cell parses as a date.
ValidDate(cell) == to_datetime(cell) # NaT

\* The integer a raw quantity cell stands for, 0 when it does not parse.
Quantity(cell) == to_int(cell)[2]

\* The raw cell is empty or does not parse as a number.
Unparseable(cell) == to_numeric(cell) = NaN

\* The raw rows of a sheet the loader has to keep.
QualifyingSewingRows(sheet) ==
    {i \in DOMAIN sheet.rows :
        /\ ValidDate(sheet.rows[i]["Date"])
        /\ \E q \in SewingQuantities : Quantity(sheet.rows[i][q]) # 0}

QualifyingRecutRows(sheet) ==
    {i \in DOMAIN sheet.rows :
        /\ ValidDate(sheet.rows[i]["Date"])
        /\ Quantity(sheet.rows[i]["QTY"]) > 0}

\* C21: every loaded record has a Date, integer quantity fields (0 where the
\* raw value does not parse), a non-zero Repair, Recut or Fail quantity on
\* the sewing-repairs sheet and QTY > 0 on the recut list, and a Department
\* among the eight error sources; and no row with a valid date and a
\* qualifying quantity is dropped.
C21_LoadedRecordsWellFormed ==
    /\ SewingLoaded =>
         /\ \A i \in DOMAIN ret.rows :
               LET row == ret.rows[i] IN
               /\ TypeOf(row["Date"]) = "date"
               /\ \A q \in SewingIntegerFields \cap DOMAIN row : TypeOf(row[q]) = "int"
               /\ \E q \in SewingQuantities : row[q][2] # 0
               /\ row["Department"] \in ErrorSources
         /\ Len(ret.rows) = Cardinality(QualifyingSewingRows(arg.sewing))
         /\ Len(ret.rows) = Len(arg.sewing.rows) =>
               \A i \in DOMAIN ret.rows : \A q \in SewingQuantities :
                   Unparseable(arg.sewing.rows[i][q]) => ret.rows[i][q] = IntCell(0)
    /\ RecutLoaded =>
         /\ \A i \in DOMAIN ret2.rows :
               LET row == ret2.rows[i] IN
               /\ TypeOf(row["Date"]) = "date"
               /\ \A q \in RecutIntegerFields \cap DOMAIN row : TypeOf(row[q]) = "int"
               /\ row["QTY"][2] > 0
               /\ row["Department"] \in ErrorSources
         /\ Len(ret2.rows) = Cardinality(QualifyingRecutRows(arg.recut))

\* A sheet of two rows, one of them without a valid date, of which the
\* loader keeps the other.
C21_Witness ==
    /\ RecutLoaded
    /\ Len(arg.sewing.rows) = 2
    /\ Len(ret.rows) = 1
    /\ \E i \in DOMAIN arg.sewing.rows : ~ValidDate(arg.sewing.rows[i]["Date"])
    /\ ret.rows[1]["Repair Qty"] # IntCell(0)
    /\ \E i \in DOMAIN arg.sewing.rows : arg.sewing.rows[i]["Fail Qty"] = Some("n/a")
    /\ ret.rows[1]["Fail Qty"] = IntCell(0)

\* C22: whichever expected columns a sheet lacks, the loaders complete
\* without an error, and Department is 'Unknown' for every row when the code
\* column is missing.
C22_MissingColumnsTolerated ==
    /\ ~raised
    /\ pc # "failed"
    /\ (SewingLoaded /\ "Reason Code" \notin arg.sewing.columns) =>
          \A i \in DOMAIN ret.rows : ret.rows[i]["Department"] = "Unknown"
    /\ (RecutLoaded /\ "CODE" \notin arg.recut.columns) =>
          \A i \in DOMAIN ret2.rows : ret2.rows[i]["Department"] = "Unknown"

(***************************************************************************)
(* Properties of the aggregation layer, checked under SpecConsume.         *)
(***************************************************************************)
JustLoaded == pc = "loaded"
ParentSkuAdded == pc = "add_parent_sku_column"

\* The cell of the SKU-bearing field add_parent_sku_column reads in a row
\* when asked for sku_col: sku_col itself, else 'SKU-Colorway-Size'.
SkuFieldOf(row, sku_col) ==
    IF sku_col \in DOMAIN row THEN row[sku_col]
    ELSE IF "SKU-Colorway-Size" \in DOMAIN row THEN row["SKU-Colorway-Size"]
    ELSE None

C24_CallerFrameUnchanged == [][arg'.df = arg.df]_vars

\* The code of a record starts with one of the prefixes, ignoring
\* surrounding blanks and case.
CodeStartsWith(row, col, prefixes) ==
    /\ col \in DOMAIN row
    /\ row[col] # None
    /\ \E p \in prefixes : startswith(upper(strip(row[col][1])), p)

\* The records of the caller's frame whose code starts with one of the
\* prefixes, in order.
RecordsWithCode(col, prefixes) ==
    SelectSeq(arg.df.rows, LAMBDA row : CodeStartsWith(row, col, prefixes))

\* C26: the role filters return the records their docstrings name: A1x
\* codes for cutting and A2x and S codes for sewing on the sewing-repairs
\* frame, B, C and F codes for cutting and A codes for sewing on the recut
\* list; so a loaded record with Reason Code 'A1A' is in the result of
\* get_cutting_errors_sewing_repairs.
C26_RoleFiltersReturnNamedRecords ==
    /\ pc = "get_cutting_errors_sewing_repairs" =>
          ret.rows = RecordsWithCode("Reason Code", {"A1"})
    /\ pc = "get_sewing_errors_sewing_repairs" =>
          ret.rows = RecordsWithCode("Reason Code", {"A2", "S"})
    /\ pc = "get_cutting_errors_recut_list" =>
          ret.rows = RecordsWithCode("CODE", {"B", "C", "F"})
    /\ pc = "get_sewing_errors_recut_list" =>
          ret.rows = RecordsWithCode("CODE", {"A"})

(***************************************************************************)
(* Properties of per-record derivation, checked under SpecRecords.         *)
(***************************************************************************)
RECURSIVE ClassifiedInOrder(_, _)
\* The derived values after classifying records 1..n, in this order.
ClassifiedInOrder(derived, n) ==
    IF n = 0 THEN derived
    ELSE LET before == ClassifiedInOrder(derived, n - 1) IN
         [before EXCEPT ![n].Department =
             <<derive_department(arg.kind, arg.records, before, n)>>]

InputIsBlank == arg = None \/ IsBlank(arg[1])

C27_NeverEmptyString ==
    Resolved =>
        /\ ret # Some("")
        /\ ~InputIsBlank => (ret # None /\ ret[1] # "")

\* The trimmed input is an exception SKU written in another case.
CaseVariantOfException ==
    ~InputIsBlank /\ Trimmed \notin SKU_EXCEPTIONS /\ upper(Trimmed) \in SKU_EXCEPTIONS

\* The trimmed input is an exception SKU followed by further segments.
ExtendsException ==
    ~InputIsBlank /\ \E e \in SKU_EXCEPTIONS : Trimmed # e /\ startswith(Trimmed, e \o "-")

\* C28: only the exact spelling of an exception SKU is exempt; a case
\* variant of one, or one with an extra segment, has its color segments
\* removed like any other SKU ('pi-cb' -> 'pi', 'PI-CB-LG' -> 'PI-LG').
C28_ExceptionMatchIsExactAndWhole ==
    /\ (Resolved /\ (CaseVariantOfException \/ ExtendsException) /\ NonColorSegments # <<>>) =>
          ret = Some(join(NonColorSegments, "-"))
    /\ (Resolved /\ arg = Some("pi-cb")) => ret = Some("pi")
    /\ (Resolved /\ arg = Some("PI-CB-LG")) => ret = Some("PI-LG")

C28_Witness == Resolved /\ arg = Some("pi-cb") /\ ret = Some("pi")

(***************************************************************************)
(* Further properties of the classifiers, checked under SpecClassify.      *)
(***************************************************************************)
\* The Scheme A keys the trimmed code is a case variant of.
SchemeAKeysInOtherCase ==
    {k \in dict_keys(SEWING_REPAIRS_DEPT_MAP) : Trimmed # k /\ SameIgnoringCase(Trimmed, k)}

IsCaseVariantOfSchemeAKey ==
    /\ pc = "reason"
    /\ arg # None
    /\ Trimmed \notin dict_keys(SEWING_REPAIRS_DEPT_MAP)
    /\ SchemeAKeysInOtherCase # {}

SchemeACategory(k) == dict_get(SEWING_REPAIRS_DEPT_MAP, k)

\* C29 as stated: a lowercase or mixed-case variant of a Scheme A key is
\* never given the key's category and is classified 'Other'.
C29_CaseVariantIsOther ==
    IsCaseVariantOfSchemeAKey =>
        /\ \A k \in SchemeAKeysInOtherCase : ret # Some(SchemeACategory(k))
        /\ ret = Some("Other")

\* C29 as amended: a case variant of a Scheme A key is not looked up in the
\* table; it is 'Other' when it matches no startswith pattern as written,
\* which is so whenever its first letter is lowercase ('a1a', 's3', 'c2'),
\* and it gets a pattern's category when it keeps an uppercase pattern
\* prefix ('A2a' -> Sewing Operator Error, 'A1a' -> Cutting Machine Error).
C29_CaseVariantClassifiedAsWritten ==
    IsCaseVariantOfSchemeAKey =>
        /\ ~MatchesSchemeAPattern => ret = Some("Other")
        /\ MatchesSchemeAPattern => ret \notin {Some("Other"), Some("Unknown")}
        /\ CharAt(Trimmed, 1) \in DOMAIN UpperMap => ret = Some("Other")
        /\ Trimmed = "A2a" => ret = Some("Sewing Operator Error")
        /\ Trimmed = "A1a" => ret = Some("Cutting Machine Error")

C29_Witness ==
    /\ pc = "reason"
    /\ arg = Some("a1a")
    /\ ret = Some("Other")

\* The entries of the Scheme B table whose key is the trimmed code in some
\* case.
SchemeBEntriesIgnoringCase ==
    {i \in DOMAIN RECUT_LIST_DEPT_MAP : SameIgnoringCase(RECUT_LIST_DEPT_MAP[i][1], Trimmed)}

\* C30: two keys of RECUT_LIST_DEPT_MAP that are equal when lowercased map
\* to the same category, so a code that is a key in some case is given the
\* category of every such key, whichever the table yields first.
C30_LowercaseLookupUnambiguous ==
    /\ \A i, j \in DOMAIN RECUT_LIST_DEPT_MAP :
          SameIgnoringCase(RECUT_LIST_DEPT_MAP[i][1], RECUT_LIST_DEPT_MAP[j][1])
             => RECUT_LIST_DEPT_MAP[i][2] = RECUT_LIST_DEPT_MAP[j][2]
    /\ (pc = "recut" /\ arg # None) =>
          \A i \in SchemeBEntriesIgnoringCase : ret = Some(RECUT_LIST_DEPT_MAP[i][2])

\* A code in a case the table does not list, equal in lower case to two of
\* its keys.
C30_Witness ==
    /\ pc = "recut"
    /\ arg = Some("a: smo error")
    /\ Cardinality(SchemeBEntriesIgnoringCase) = 2
    /\ ret = Some("Sewing Operator Error")

====
